---- MODULE Spec2Model ----
(***************************************************************************)
(* micro-http-server: the listener (src/src/microhttp.rs), the per-        *)
(* connection Client (src/src/client.rs), the responder Request            *)
(* (src/src/request.rs) and the platform switch (src/src/lib.rs), as one   *)
(* state machine.                                                          *)
(*                                                                         *)
(* A byte is a one-character string; a byte string is a sequence of them.  *)
(* BadByte stands for the byte 0xFF, which occurs in no UTF-8 encoding.    *)
(* The server is one thread (pc is its position); peers and the kernel's   *)
(* socket buffers are the environment.                                     *)
(***************************************************************************)
EXTENDS Naturals, Sequences, FiniteSets, TLC

VARIABLES
    windows,      \* os_windows(): the build target
    nonblocking,  \* the listening socket's non-blocking flag
    modeSet,      \* history: set_nonblocking has been called on the listener
    backlog,      \* peers whose connection waits in the accept queue
    conn,         \* per peer: "none" | "queued" | "accepted" | "dropped"
    peerOpen,     \* per peer: the peer has not closed its end
    tosend,       \* per peer: the segments of its request the peer has yet to send
    inflight,     \* per peer: bytes sent by the peer, not yet read by the server
    sent,         \* history, per peer: the segments the peer has sent
    wire,         \* per peer: bytes the server's socket accepted, in order
    streamNb,     \* the accepted stream's non-blocking flag
    wcap,         \* bytes the accepted stream's write takes per call (0: all)
    pc,           \* the server thread's position
    cur,          \* the peer of the stream the server thread works on (0: none)
    result,       \* read_all's `result` vector
    data,         \* Client::new's `data`
    client,       \* the Client the caller holds, or NoClient
    ret,          \* the value the last finished call returned
    args,         \* the caller's arguments: status, headers, body and the
                  \* content_size it declares to the chunked calls
    call,         \* the response call in progress, or NoCall
    calls         \* history: the response calls finished on this Client

vars == <<windows, nonblocking, modeSet, backlog, conn, peerOpen, tosend,
          inflight, sent, wire, streamNb, wcap, pc, cur, result, data,
          client, ret, args, call, calls>>

(***************************************************************************)
(* Bounds of the model.                                                    *)
(***************************************************************************)
\* Peers that may connect.
MaxPeers == 1
\* Pieces a parser input is made of (SpecParse).
MaxPieces == 5
\* Length of the longest response body.
MaxBody == 4
\* Largest per-call limit of a short-writing socket.
MaxCap == 2
\* Response calls made on one Client.
MaxCalls == 1
\* read_all's BUF_SIZE (client.rs:23) and Client::CHUNK_SIZE (client.rs:213)
\* are 4096 in the source; the model scales both down so that a read that
\* fills the buffer happens with short byte strings.
BUF_SIZE == 6
CHUNK_SIZE == 3

Peers == 1..MaxPeers

(***************************************************************************)
(* Bytes and byte strings.                                                 *)
(***************************************************************************)
CR == "\r"
LF == "\n"
SP == " "
BadByte == "0xFF"
CRLF == <<CR, LF>>
GET_ == <<"G", "E", "T", SP>>

Min(a, b) == IF a < b THEN a ELSE b

RECURSIVE Concat(_)
Concat(ss) == IF ss = <<>> THEN <<>> ELSE Head(ss) \o Concat(Tail(ss))

\* Sequences over S of length at most n.
SeqsUpTo(S, n) == UNION {[1..k -> S] : k \in 0..n}

(***************************************************************************)
(* extract_request_url (client.rs:48-63).                                  *)
(***************************************************************************)
\* str::from_utf8(buf) is Ok: no byte of buf is outside every UTF-8 encoding.
from_utf8_ok(buf) == \A i \in 1..Len(buf) : buf[i] # BadByte

\* The index of the first match of pattern p in s at or after i; 0 if none.
RECURSIVE find(_, _, _)
find(s, p, i) ==
    IF i + Len(p) - 1 > Len(s) THEN 0
    ELSE IF SubSeq(s, i, i + Len(p) - 1) = p THEN i
    ELSE find(s, p, i + 1)

\* Mutant of starts_with: line.contains(p).
starts_with_anywhere(line, p) == find(line, p, 1) # 0

\* line.starts_with(p)
starts_with(line, p) ==
    Len(line) >= Len(p) /\ SubSeq(line, 1, Len(p)) = p

\* Mutant of split: empty pieces are left out.
RECURSIVE split_nonempty(_, _)
split_nonempty(s, p) ==
    LET i == find(s, p, 1)
    IN  IF i = 0 THEN (IF s = <<>> THEN <<>> ELSE <<s>>)
        ELSE (IF i = 1 THEN <<>> ELSE <<SubSeq(s, 1, i - 1)>>)
                 \o split_nonempty(SubSeq(s, i + Len(p), Len(s)), p)

\* s.split(p): the pieces between the non-overlapping matches of p, left to
\* right, empty pieces and the last piece included.
RECURSIVE split(_, _)
split(s, p) ==
    LET i == find(s, p, 1)
    IN  IF i = 0 THEN <<s>>
        ELSE <<SubSeq(s, 1, i - 1)>> \o split(SubSeq(s, i + Len(p), Len(s)), p)

Some(v) == [tag |-> "Some", val |-> v]
None == [tag |-> "None", val |-> <<>>]
Panic == [tag |-> "Panic", val |-> <<>>]

\* The component of a GET line that becomes the request.
GetComponent(components) == components[2]

\* Mutant of scan_lines: the loop does not return at the first GET line, and
\* the last one decides.
RECURSIVE scan_lines_last_wins(_, _)
scan_lines_last_wins(lines, i) ==
    IF i > Len(lines) THEN None
    ELSE LET later == scan_lines_last_wins(lines, i + 1)
         IN  IF later # None THEN later
             ELSE IF starts_with(lines[i], GET_)
                  THEN Some(GetComponent(split(lines[i], <<SP>>)))
                  ELSE None

\* The for loop over the lines, from line i on.
RECURSIVE scan_lines(_, _)
scan_lines(lines, i) ==
    IF i > Len(lines) THEN None
    ELSE IF starts_with(lines[i], GET_)
         THEN LET components == split(lines[i], <<SP>>)
              IN  IF Len(components) < 2
                  THEN scan_lines(lines, i + 1)
                  ELSE Some(GetComponent(components))
         ELSE scan_lines(lines, i + 1)

extract_request_url(buf) ==
    IF ~from_utf8_ok(buf) THEN Panic
    ELSE scan_lines(split(buf, CRLF), 1)

(***************************************************************************)
(* Values of the state.                                                    *)
(***************************************************************************)
NoClient == [stream |-> 0, addr |-> 0, request |-> None]
NoRet == [tag |-> "-", kind |-> "-", n |-> 0]
OkNone == [tag |-> "OkNone", kind |-> "-", n |-> 0]
OkSome == [tag |-> "OkSome", kind |-> "-", n |-> 0]
Ok(n) == [tag |-> "Ok", kind |-> "-", n |-> n]
Err(kind) == [tag |-> "Err", kind |-> kind, n |-> 0]
NoArgs == [status |-> <<>>, headers |-> <<>>, body |-> <<>>, size |-> 0]
NoCall == [op |-> "-", status |-> <<>>, size |-> 0, headers |-> <<>>,
           src |-> <<>>, slice |-> TRUE, h |-> 0, written |-> 0,
           buffer |-> <<>>, start |-> 0]

\* The state of a server that has bound its listener and done nothing else.
Fresh ==
    /\ nonblocking = FALSE
    /\ modeSet = FALSE
    /\ backlog = <<>>
    /\ conn = [p \in Peers |-> "none"]
    /\ peerOpen = [p \in Peers |-> TRUE]
    /\ inflight = [p \in Peers |-> <<>>]
    /\ sent = [p \in Peers |-> <<>>]
    /\ wire = [p \in Peers |-> <<>>]
    /\ streamNb = FALSE
    /\ wcap = 0
    /\ pc = "idle"
    /\ cur = 0
    /\ result = <<>>
    /\ data = <<>>
    /\ client = NoClient
    /\ ret = NoRet
    /\ call = NoCall
    /\ calls = <<>>

\* The TcpStream of peer p is dropped: the connection is closed, and with it
\* ends the record of what went over it.
DropStream(p) ==
    /\ conn' = [conn EXCEPT ![p] = "dropped"]
    /\ peerOpen' = [peerOpen EXCEPT ![p] = FALSE]
    /\ tosend' = [tosend EXCEPT ![p] = <<>>]
    /\ inflight' = [inflight EXCEPT ![p] = <<>>]
    /\ sent' = [sent EXCEPT ![p] = <<>>]
    /\ wire' = [wire EXCEPT ![p] = <<>>]

(***************************************************************************)
(* Client::new after read_all has returned Ok(data) (client.rs:70-80).     *)
(* `data` keeps its value after the return, as the record of what the      *)
(* Client was built from, until the next Client is built.                  *)
(***************************************************************************)
\* extract_request_url returns; the Client is built and next_client returns it.
ClientNewOk ==
    /\ pc = "parse"
    /\ extract_request_url(data) # Panic
    /\ client' = [stream |-> cur, addr |-> cur,
                  request |-> extract_request_url(data)]
    /\ ret' = OkSome
    /\ pc' = "idle"
    /\ cur' = 0
    /\ UNCHANGED <<windows, nonblocking, modeSet, backlog, conn, peerOpen,
                   tosend, inflight, sent, wire, streamNb, wcap, result,
                   data, args, call, calls>>

\* str::from_utf8(buf).unwrap() panics: the thread unwinds, the stream is
\* dropped and nothing is returned.
ClientNewPanic ==
    /\ pc = "parse"
    /\ extract_request_url(data) = Panic
    /\ pc' = "panicked"
    /\ DropStream(cur)
    /\ cur' = 0
    /\ UNCHANGED <<windows, nonblocking, modeSet, backlog, streamNb, wcap,
                   result, data, client, ret, args, call, calls>>

(***************************************************************************)
(* The peers and the kernel (the environment of the server).               *)
(***************************************************************************)
\* TcpStream::connect: the connection waits in the listener's accept queue.
PeerConnect(p) ==
    /\ conn[p] = "none"
    /\ peerOpen[p]
    /\ conn' = [conn EXCEPT ![p] = "queued"]
    /\ backlog' = Append(backlog, p)
    /\ UNCHANGED <<windows, nonblocking, modeSet, peerOpen, tosend, inflight,
                   sent, wire, streamNb, wcap, pc, cur, result, data, client,
                   ret, args, call, calls>>

\* The next segment of the peer's request arrives at the server's socket.
PeerSend(p) ==
    /\ conn[p] \in {"queued", "accepted"}
    /\ peerOpen[p]
    /\ tosend[p] # <<>>
    /\ inflight' = [inflight EXCEPT ![p] = @ \o Head(tosend[p])]
    /\ sent' = [sent EXCEPT ![p] = Append(@, Head(tosend[p]))]
    /\ tosend' = [tosend EXCEPT ![p] = Tail(@)]
    /\ UNCHANGED <<windows, nonblocking, modeSet, backlog, conn, peerOpen,
                   wire, streamNb, wcap, pc, cur, result, data, client, ret,
                   args, call, calls>>

\* The peer closes its end of the connection.
PeerClose(p) ==
    /\ conn[p] \in {"queued", "accepted"}
    /\ peerOpen[p]
    /\ peerOpen' = [peerOpen EXCEPT ![p] = FALSE]
    /\ UNCHANGED <<windows, nonblocking, modeSet, backlog, conn, tosend,
                   inflight, sent, wire, streamNb, wcap, pc, cur, result,
                   data, client, ret, args, call, calls>>

(***************************************************************************)
(* MicroHTTP (microhttp.rs).  MicroHTTP::new is Init: TcpListener::bind    *)
(* gives a listener in blocking mode, and new changes nothing about it.    *)
(***************************************************************************)
\* MicroHTTP::set_nonblocking(state)
SetNonblocking(state) ==
    /\ pc = "idle"
    /\ nonblocking' = state
    /\ modeSet' = TRUE
    /\ UNCHANGED <<windows, backlog, conn, peerOpen, tosend, inflight, sent,
                   wire, streamNb, wcap, pc, cur, result, data, client, ret,
                   args, call, calls>>

\* MicroHTTP::next_client is called: the thread enters listener.accept().
NextClientCall ==
    /\ pc = "idle"
    /\ client = NoClient
    /\ pc' = "accept"
    /\ ret' = NoRet
    /\ UNCHANGED <<windows, nonblocking, modeSet, backlog, conn, peerOpen,
                   tosend, inflight, sent, wire, streamNb, wcap, cur, result,
                   data, client, args, call, calls>>

\* The non-blocking flag of a stream accept returns: inherited from the
\* listener on Windows, never set on Linux.
AcceptedNonblocking == windows /\ nonblocking

\* accept returns Ok((socket, addr)): Client::new starts read_all.
AcceptOk ==
    /\ pc = "accept"
    /\ backlog # <<>>
    /\ cur' = Head(backlog)
    /\ backlog' = Tail(backlog)
    /\ conn' = [conn EXCEPT ![Head(backlog)] = "accepted"]
    /\ streamNb' = AcceptedNonblocking
    /\ result' = <<>>
    /\ data' = <<>>
    /\ pc' = "read"
    /\ UNCHANGED <<windows, nonblocking, modeSet, peerOpen, tosend, inflight,
                   sent, wire, wcap, client, ret, args, call, calls>>

\* accept fails with WouldBlock: only a non-blocking listener with an empty
\* accept queue does.  next_client returns Ok(None).
AcceptWouldBlock ==
    /\ pc = "accept"
    /\ backlog = <<>>
    /\ nonblocking
    /\ ret' = OkNone
    /\ pc' = "idle"
    /\ UNCHANGED <<windows, nonblocking, modeSet, backlog, conn, peerOpen,
                   tosend, inflight, sent, wire, streamNb, wcap, cur, result,
                   data, client, args, call, calls>>

\* accept fails with another error: next_client returns it.
AcceptError ==
    /\ pc = "accept"
    /\ ret' = Err("Other")
    /\ pc' = "idle"
    /\ UNCHANGED <<windows, nonblocking, modeSet, backlog, conn, peerOpen,
                   tosend, inflight, sent, wire, streamNb, wcap, cur, result,
                   data, client, args, call, calls>>

(***************************************************************************)
(* read_all (client.rs:19-46), one action per stream.read.                 *)
(***************************************************************************)
\* read_all returns Ok(result), the vector moving into Client::new's `data`.
\* `rest` is what the socket still holds.
ReadAllOk(bytes, rest) ==
    /\ data' = bytes
    /\ result' = <<>>
    /\ inflight' = [inflight EXCEPT ![cur] = rest]
    /\ pc' = "parse"
    /\ UNCHANGED <<windows, nonblocking, modeSet, backlog, conn, peerOpen,
                   tosend, sent, wire, streamNb, wcap, cur, client, ret, args,
                   call, calls>>

\* read_all returns Err(kind): `?` in Client::new and in next_client hand it
\* to the caller; the stream and the bytes read are dropped.
ReadAllErr(kind) ==
    /\ ret' = Err(kind)
    /\ DropStream(cur)
    /\ result' = <<>>
    /\ cur' = 0
    /\ pc' = "idle"
    /\ UNCHANGED <<windows, nonblocking, modeSet, backlog, streamNb, wcap,
                   data, client, args, call, calls>>

\* Mutant of ReadMore: the loop goes on after every read that returned bytes,
\* and ends only at a read of 0 bytes or an error.
ReadMoreUntilEmpty(val) == val > 0

\* Whether the loop goes on after a read of val > 0 bytes.
ReadMore(val) == ~(val < BUF_SIZE)

\* stream.read returns Ok(val), val > 0: the bytes the socket holds, at most
\* BUF_SIZE of them.
ReadData ==
    /\ pc = "read"
    /\ inflight[cur] # <<>>
    /\ LET val == Min(Len(inflight[cur]), BUF_SIZE)
           got == result \o SubSeq(inflight[cur], 1, val)
           rest == SubSeq(inflight[cur], val + 1, Len(inflight[cur]))
       IN  IF ReadMore(val)
           THEN /\ result' = got
                /\ inflight' = [inflight EXCEPT ![cur] = rest]
                /\ UNCHANGED <<windows, nonblocking, modeSet, backlog, conn,
                               peerOpen, tosend, sent, wire, streamNb, wcap,
                               pc, cur, data, client, ret, args, call, calls>>
           ELSE ReadAllOk(got, rest)

\* stream.read returns Ok(0): the peer has closed and nothing is left.
ReadEof ==
    /\ pc = "read"
    /\ inflight[cur] = <<>>
    /\ ~peerOpen[cur]
    /\ ReadAllOk(result, <<>>)

\* stream.read fails with WouldBlock: only a non-blocking stream with nothing
\* to read does; a blocking stream waits instead.
ReadWouldBlock ==
    /\ pc = "read"
    /\ inflight[cur] = <<>>
    /\ peerOpen[cur]
    /\ streamNb
    /\ ReadAllOk(result, <<>>)

\* stream.read fails with TimedOut and os_windows() is true.
ReadTimedOutWindows ==
    /\ pc = "read"
    /\ inflight[cur] = <<>>
    /\ peerOpen[cur]
    /\ windows
    /\ ReadAllOk(result, <<>>)

\* Mutant of ReadTimedOutOther: TimedOut ends the loop with Ok(result) on
\* every platform.
ReadTimedOutAlwaysOk ==
    /\ pc = "read"
    /\ inflight[cur] = <<>>
    /\ peerOpen[cur]
    /\ ~windows
    /\ ReadAllOk(result, <<>>)

\* stream.read fails with TimedOut and os_windows() is false.
ReadTimedOutOther ==
    /\ pc = "read"
    /\ inflight[cur] = <<>>
    /\ peerOpen[cur]
    /\ ~windows
    /\ ReadAllErr("TimedOut")

\* stream.read fails with any other error.
ReadError ==
    /\ pc = "read"
    /\ ReadAllErr("ConnectionReset")

\* The caller drops the Client: the stream is closed.
DropClient ==
    /\ pc = "idle"
    /\ client # NoClient
    /\ DropStream(client.stream)
    /\ client' = NoClient
    /\ calls' = <<>>
    /\ data' = <<>>
    /\ UNCHANGED <<windows, nonblocking, modeSet, backlog, streamNb, wcap,
                   pc, cur, result, ret, args, call>>

(***************************************************************************)
(* Client::addr and Client::request (client.rs:84-95): each returns a      *)
(* field of the Client.                                                    *)
(***************************************************************************)
\* Client::addr(&self)
CallAddr ==
    /\ pc = "idle"
    /\ client # NoClient
    /\ ret' = [tag |-> "Addr", kind |-> "-", n |-> client.addr]
    /\ UNCHANGED <<windows, nonblocking, modeSet, backlog, conn, peerOpen,
                   tosend, inflight, sent, wire, streamNb, wcap, pc, cur,
                   result, data, client, args, call, calls>>

\* Mutant of CallRequest: the request is parsed anew from what the socket
\* holds.
CallRequestRereads ==
    /\ pc = "idle"
    /\ client # NoClient
    /\ from_utf8_ok(inflight[client.stream])
    /\ client' = [client EXCEPT
                     !.request = extract_request_url(inflight[client.stream])]
    /\ inflight' = [inflight EXCEPT ![client.stream] = <<>>]
    /\ ret' = [tag |-> "Request", kind |-> "-", n |-> 0, val |-> client'.request]
    /\ UNCHANGED <<windows, nonblocking, modeSet, backlog, conn, peerOpen,
                   tosend, sent, wire, streamNb, wcap, pc, cur, result, data,
                   args, call, calls>>

\* Client::request(&self)
CallRequest ==
    /\ pc = "idle"
    /\ client # NoClient
    /\ ret' = [tag |-> "Request", kind |-> "-", n |-> 0, val |-> client.request]
    /\ UNCHANGED <<windows, nonblocking, modeSet, backlog, conn, peerOpen,
                   tosend, inflight, sent, wire, streamNb, wcap, pc, cur,
                   result, data, client, args, call, calls>>

(***************************************************************************)
(* The response calls (client.rs:117-211), one action per stream.write and *)
(* per data.read.                                                          *)
(***************************************************************************)
HTTP_1_0_ == <<"H", "T", "T", "P", "/", "1", ".", "0", SP>>
CONTENT_LENGTH_ == <<"C", "o", "n", "t", "e", "n", "t", "-", "L", "e", "n", "g", "t", "h", ":", SP>>
OK_200 == <<"2", "0", "0", SP, "O", "K">>

\* format!("{}", n) of a usize: its decimal digits.
Digit(d) == <<"0", "1", "2", "3", "4", "5", "6", "7", "8", "9">>[d + 1]
RECURSIVE Decimal(_)
Decimal(n) ==
    IF n < 10 THEN <<Digit(n)>> ELSE Decimal(n \div 10) \o <<Digit(n % 10)>>

\* format!("HTTP/1.0 {}\r\nContent-Length: {}\r\n", status_code, content_size)
StatusLine(status_code, content_size) ==
    HTTP_1_0_ \o status_code \o CRLF
        \o CONTENT_LENGTH_ \o Decimal(content_size) \o CRLF

\* format!("{}\r\n", h)
HeaderLine(h) == h \o CRLF

\* The number of bytes stream.write(buf) takes and returns: all of buf, or
\* the first wcap bytes when the socket takes no more per call.
Accepted(buf) == IF wcap = 0 THEN Len(buf) ELSE Min(Len(buf), wcap)

\* A response call starts on the Client the caller holds.
StartCall(op, status_code, slice, content_size, headers) ==
    /\ pc = "idle"
    /\ client # NoClient
    /\ call' = [op |-> op, status |-> status_code, size |-> content_size,
                headers |-> headers, src |-> args.body, slice |-> slice,
                h |-> 1, written |-> 0, buffer |-> <<>>,
                start |-> Len(wire[client.stream])]
    /\ ret' = NoRet
    /\ pc' = "w_status"
    /\ UNCHANGED <<windows, nonblocking, modeSet, backlog, conn, peerOpen,
                   tosend, inflight, sent, wire, streamNb, wcap, cur, result,
                   data, client, args, calls>>

\* Client::respond(status_code, data, headers)
CallRespond ==
    StartCall("respond", args.status, TRUE, Len(args.body), args.headers)

\* Client::respond_ok(data)
CallRespondOk ==
    StartCall("respond_ok", OK_200, TRUE, Len(args.body), <<>>)

\* Client::respond_chunked(status_code, data, content_size, headers), data a
\* reader that yields args.body.
CallRespondChunked ==
    StartCall("respond_chunked", args.status, FALSE, args.size, args.headers)

\* Client::respond_ok_chunked(data, content_size)
CallRespondOkChunked ==
    StartCall("respond_ok_chunked", OK_200, FALSE, args.size, <<>>)

\* The call returns r: it joins the history of the Client's calls with the
\* bytes it put on the wire.
Return(r, w) ==
    /\ ret' = r
    /\ calls' = Append(calls,
           [op |-> call.op, status |-> call.status, size |-> call.size,
            headers |-> call.headers, body |-> args.body,
            out |-> SubSeq(w, call.start + 1, Len(w)), ret |-> r])
    /\ call' = NoCall
    /\ pc' = "idle"

\* Mutant of WriteOk: bytes_written grows by the length of the buffer given,
\* not by the count the write returned.
WriteOkCountsGiven(buf, next, h) ==
    /\ wire' = [wire EXCEPT ![client.stream] = @ \o SubSeq(buf, 1, Accepted(buf))]
    /\ call' = [call EXCEPT !.written = @ + Len(buf), !.h = h,
                            !.buffer = <<>>]
    /\ pc' = next
    /\ UNCHANGED <<ret, calls>>

\* bytes_written (+)= self.stream.write(buf)?, the write returning Ok.
WriteOk(buf, next, h) ==
    /\ wire' = [wire EXCEPT ![client.stream] = @ \o SubSeq(buf, 1, Accepted(buf))]
    /\ call' = [call EXCEPT !.written = @ + Accepted(buf), !.h = h,
                            !.buffer = <<>>]
    /\ pc' = next
    /\ UNCHANGED <<ret, calls>>

\* The status line and the Content-Length header, in one write (line 196).
WriteStatus ==
    /\ pc = "w_status"
    /\ WriteOk(StatusLine(call.status, call.size),
               IF call.headers = <<>> THEN "w_blank" ELSE "w_header", 1)
    /\ UNCHANGED <<windows, nonblocking, modeSet, backlog, conn, peerOpen,
                   tosend, inflight, sent, streamNb, wcap, cur, result, data,
                   client, args>>

\* One header, in one write (lines 198-200).
WriteHeader ==
    /\ pc = "w_header"
    /\ WriteOk(HeaderLine(call.headers[call.h]),
               IF call.h = Len(call.headers) THEN "w_blank" ELSE "w_header",
               call.h + 1)
    /\ UNCHANGED <<windows, nonblocking, modeSet, backlog, conn, peerOpen,
                   tosend, inflight, sent, streamNb, wcap, cur, result, data,
                   client, args>>

\* The blank line (line 201).
WriteBlank ==
    /\ pc = "w_blank"
    /\ WriteOk(CRLF, "src_read", call.h)
    /\ UNCHANGED <<windows, nonblocking, modeSet, backlog, conn, peerOpen,
                   tosend, inflight, sent, streamNb, wcap, cur, result, data,
                   client, args>>

\* data.read(&mut buffer) returns Ok(k), k > 0 (line 205): a slice gives all
\* it has left, at most CHUNK_SIZE; another reader may give less.
SrcRead(k) ==
    /\ pc = "src_read"
    /\ call.src # <<>>
    /\ k \in 1..Min(Len(call.src), CHUNK_SIZE)
    /\ call.slice => k = Min(Len(call.src), CHUNK_SIZE)
    /\ call' = [call EXCEPT !.buffer = SubSeq(call.src, 1, k),
                            !.src = SubSeq(call.src, k + 1, Len(call.src))]
    /\ pc' = "w_body"
    /\ UNCHANGED <<windows, nonblocking, modeSet, backlog, conn, peerOpen,
                   tosend, inflight, sent, wire, streamNb, wcap, cur, result,
                   data, client, ret, args, calls>>

\* data.read returns Ok(0): the loop breaks and the call returns
\* Ok(bytes_written) (lines 206, 210).
SrcEnd ==
    /\ pc = "src_read"
    /\ call.src = <<>>
    /\ Return(Ok(call.written), wire[client.stream])
    /\ UNCHANGED <<windows, nonblocking, modeSet, backlog, conn, peerOpen,
                   tosend, inflight, sent, wire, streamNb, wcap, cur, result,
                   data, client, args>>

\* data.read fails (line 205): a reader other than a slice may.
SrcError ==
    /\ pc = "src_read"
    /\ ~call.slice
    /\ Return(Err("SourceRead"), wire[client.stream])
    /\ UNCHANGED <<windows, nonblocking, modeSet, backlog, conn, peerOpen,
                   tosend, inflight, sent, wire, streamNb, wcap, cur, result,
                   data, client, args>>

\* One chunk of the body, in one write (line 207).
WriteChunk ==
    /\ pc = "w_body"
    /\ WriteOk(call.buffer, "src_read", call.h)
    /\ UNCHANGED <<windows, nonblocking, modeSet, backlog, conn, peerOpen,
                   tosend, inflight, sent, streamNb, wcap, cur, result, data,
                   client, args>>

\* Mutant of WriteError: the error of a failed write is noted and the call
\* goes on with its next piece.
WriteErrorGoesOn ==
    /\ pc \in {"w_status", "w_header", "w_blank", "w_body"}
    /\ ~peerOpen[client.stream]
    /\ ret' = Err("BrokenPipe")
    /\ pc' = IF pc = "w_body" THEN "src_read" ELSE "w_blank"
    /\ UNCHANGED <<windows, nonblocking, modeSet, backlog, conn, peerOpen,
                   tosend, inflight, sent, wire, streamNb, wcap, cur, result,
                   data, client, args, call, calls>>

\* A stream.write fails, which it may once the peer has closed: `?` returns
\* the error at once.
WriteError ==
    /\ pc \in {"w_status", "w_header", "w_blank", "w_body"}
    /\ ~peerOpen[client.stream]
    /\ Return(Err("BrokenPipe"), wire[client.stream])
    /\ UNCHANGED <<windows, nonblocking, modeSet, backlog, conn, peerOpen,
                   tosend, inflight, sent, wire, streamNb, wcap, cur, result,
                   data, client, args>>

(***************************************************************************)
(* Request (request.rs), the responder lib.rs exports next to MicroHTTP.   *)
(* It has the fields of Client, so `client` stands for it in SpecRequest;  *)
(* its respond takes the headers as an Option, None being written like an  *)
(* empty list.                                                             *)
(***************************************************************************)
\* format!("HTTP/1.0 {}\r\nContent-Length: {}\r\n\r\n", status_code, data.len())
RequestStatusLine(status_code, len) ==
    HTTP_1_0_ \o status_code \o CRLF
        \o CONTENT_LENGTH_ \o Decimal(len) \o CRLF \o CRLF

\* A call of Request::respond starts.
StartRequestCall(op, status_code, headers) ==
    /\ pc = "idle"
    /\ client # NoClient
    /\ call' = [op |-> op, status |-> status_code, size |-> Len(args.body),
                headers |-> headers, src |-> args.body, slice |-> TRUE,
                h |-> 1, written |-> 0, buffer |-> <<>>,
                start |-> Len(wire[client.stream])]
    /\ ret' = NoRet
    /\ pc' = "rq_status"
    /\ UNCHANGED <<windows, nonblocking, modeSet, backlog, conn, peerOpen,
                   tosend, inflight, sent, wire, streamNb, wcap, cur, result,
                   data, client, args, calls>>

\* Request::respond(status_code, data, Some(headers))
CallRequestRespond ==
    StartRequestCall("Request::respond", args.status, args.headers)

\* Request::respond_ok(data)
CallRequestRespondOk ==
    StartRequestCall("Request::respond_ok", OK_200, <<>>)

\* The status line, the Content-Length header and the blank line, in one
\* write (request.rs:100).
RequestWriteStatus ==
    /\ pc = "rq_status"
    /\ WriteOk(RequestStatusLine(call.status, call.size),
               IF call.headers = <<>> THEN "rq_return" ELSE "rq_header", 1)
    /\ UNCHANGED <<windows, nonblocking, modeSet, backlog, conn, peerOpen,
                   tosend, inflight, sent, streamNb, wcap, cur, result, data,
                   client, args>>

\* One header, in one write (request.rs:102-104).
RequestWriteHeader ==
    /\ pc = "rq_header"
    /\ WriteOk(HeaderLine(call.headers[call.h]),
               IF call.h = Len(call.headers) THEN "rq_return" ELSE "rq_header",
               call.h + 1)
    /\ UNCHANGED <<windows, nonblocking, modeSet, backlog, conn, peerOpen,
                   tosend, inflight, sent, streamNb, wcap, cur, result, data,
                   client, args>>

\* Ok(bytes_written) (request.rs:107): `data` has not been written.
RequestReturn ==
    /\ pc = "rq_return"
    /\ Return(Ok(call.written), wire[client.stream])
    /\ UNCHANGED <<windows, nonblocking, modeSet, backlog, conn, peerOpen,
                   tosend, inflight, sent, wire, streamNb, wcap, cur, result,
                   data, client, args>>

\* A stream.write fails: try! returns the error at once.
RequestWriteError ==
    /\ pc \in {"rq_status", "rq_header"}
    /\ ~peerOpen[client.stream]
    /\ Return(Err("BrokenPipe"), wire[client.stream])
    /\ UNCHANGED <<windows, nonblocking, modeSet, backlog, conn, peerOpen,
                   tosend, inflight, sent, wire, streamNb, wcap, cur, result,
                   data, client, args>>

(***************************************************************************)
(* Spec: the life of the server from MicroHTTP::new on.  Each peer sends   *)
(* one of Requests, a request cut into the segments that arrive one by     *)
(* one; the caller answers with one of LifeArgs.                           *)
(***************************************************************************)
ReqGet == <<"G", "E", "T", SP, "/", "a", "b", CR, LF>>
ReqBad == <<"G", "E", "T", SP, "/", CR, LF, BadByte>>
\* The two segments s is cut into after its first k bytes.
CutAt(s, k) == <<SubSeq(s, 1, k), SubSeq(s, k + 1, Len(s))>>
Requests ==
    {<<>>, <<ReqGet>>, <<ReqBad>>, CutAt(ReqGet, 2), CutAt(ReqGet, BUF_SIZE)}

TEST == <<"T", "E", "S", "T">>
\* The body of n bytes: TEST, repeated and cut to n.
Body(n) == [i \in 1..n |-> TEST[((i - 1) % 4) + 1]]
HeaderA == <<"A", ":", SP, "1">>
HeaderB == <<"B", ":", SP, "2">>
NOT_FOUND_404 == <<"4", "0", "4">>

LifeArgs == {[status |-> NOT_FOUND_404, headers |-> <<HeaderA>>,
             body |-> Body(1), size |-> 1]}

Init ==
    /\ Fresh
    /\ windows \in BOOLEAN
    /\ tosend \in [Peers -> Requests]
    /\ args \in LifeArgs

Environment ==
    \E p \in Peers :
        \/ PeerConnect(p)
        \/ PeerSend(p)
        \/ PeerClose(p)

Listener ==
    \/ \E state \in BOOLEAN : SetNonblocking(state)
    \/ NextClientCall
    \/ AcceptOk
    \/ AcceptWouldBlock
    \/ AcceptError

ClientNew ==
    \/ ReadData
    \/ ReadEof
    \/ ReadWouldBlock
    \/ ReadTimedOutWindows
    \/ ReadTimedOutOther
    \/ ReadError
    \/ ClientNewOk
    \/ ClientNewPanic

\* The steps of a response call in progress.
CallSteps ==
    \/ WriteStatus
    \/ WriteHeader
    \/ WriteBlank
    \/ \E k \in 1..CHUNK_SIZE : SrcRead(k)
    \/ SrcEnd
    \/ SrcError
    \/ WriteChunk
    \/ WriteError

\* The caller makes at most MaxCalls response calls on one Client.
Responses ==
    \/ /\ Len(calls) < MaxCalls
       /\ \/ CallRespond
          \/ CallRespondOk
          \/ CallRespondChunked
          \/ CallRespondOkChunked
    \/ CallSteps

\* The caller reads the fields of the Client it holds.
Getters ==
    \/ CallAddr
    \/ CallRequest

Next ==
    Environment \/ Listener \/ ClientNew \/ Responses \/ Getters \/ DropClient

Spec == Init /\ [][Next]_vars

(***************************************************************************)
(* SpecConstruct: the life of the server up to the construction of         *)
(* Clients: peers, the listener, next_client with read_all and             *)
(* Client::new, and the drop of the Client returned.                       *)
(***************************************************************************)
NextConstruct == Environment \/ Listener \/ ClientNew \/ DropClient

SpecConstruct == Init /\ [][NextConstruct]_vars

(***************************************************************************)
(* SpecHeld: the calls on a Client the caller holds while its peer goes on *)
(* sending.  next_client has returned the Client built from "GE", the      *)
(* first segment of ReqGet; the rest of the request is still to arrive.    *)
(***************************************************************************)
InitHeld ==
    /\ windows = FALSE
    /\ nonblocking = FALSE
    /\ modeSet = FALSE
    /\ backlog = <<>>
    /\ conn = [p \in Peers |-> IF p = 1 THEN "accepted" ELSE "none"]
    /\ peerOpen = [p \in Peers |-> TRUE]
    /\ tosend = [p \in Peers |-> IF p = 1 THEN Tail(CutAt(ReqGet, 2)) ELSE <<>>]
    /\ inflight = [p \in Peers |-> <<>>]
    /\ sent = [p \in Peers |-> IF p = 1 THEN <<Head(CutAt(ReqGet, 2))>> ELSE <<>>]
    /\ wire = [p \in Peers |-> <<>>]
    /\ streamNb = FALSE
    /\ wcap \in 0..MaxCap
    /\ pc = "idle"
    /\ cur = 0
    /\ result = <<>>
    /\ data = Head(CutAt(ReqGet, 2))
    /\ client = [stream |-> 1, addr |-> 1,
                 request |-> extract_request_url(Head(CutAt(ReqGet, 2)))]
    /\ ret = OkSome
    /\ args \in LifeArgs
    /\ call = NoCall
    /\ calls = <<>>

NextHeld == Responses \/ Getters \/ PeerSend(1) \/ PeerClose(1)

SpecHeld == InitHeld /\ [][NextHeld]_vars

(***************************************************************************)
(* SpecRespond: the response calls on a Client built from "GET /" + CRLF   *)
(* + CRLF, for every status, header list and body of RespondArgs and every *)
(* write limit of the socket.                                              *)
(***************************************************************************)
ReqRoot == <<"G", "E", "T", SP, "/", CR, LF, CR, LF>>
Statuses == {OK_200, NOT_FOUND_404}
HeaderLists == {<<>>, <<HeaderA>>, <<HeaderA, HeaderB>>}
Bodies == {Body(n) : n \in 0..MaxBody}
\* The content_size declared for body b: its length, less, or more.
Sizes(b) == {Len(b), 0, 12}
RespondArgs ==
    UNION {{[status |-> s, headers |-> h, body |-> b, size |-> n] :
               s \in Statuses, h \in HeaderLists, n \in Sizes(b)} :
           b \in Bodies}

InitRespond ==
    /\ windows = FALSE
    /\ nonblocking = FALSE
    /\ modeSet = FALSE
    /\ backlog = <<>>
    /\ conn = [p \in Peers |-> IF p = 1 THEN "accepted" ELSE "none"]
    /\ peerOpen = [p \in Peers |-> TRUE]
    /\ tosend = [p \in Peers |-> <<>>]
    /\ inflight = [p \in Peers |-> <<>>]
    /\ sent = [p \in Peers |-> IF p = 1 THEN <<ReqRoot>> ELSE <<>>]
    /\ wire = [p \in Peers |-> <<>>]
    /\ streamNb = FALSE
    /\ wcap \in 0..MaxCap
    /\ pc = "idle"
    /\ cur = 0
    /\ result = <<>>
    /\ data = ReqRoot
    /\ client = [stream |-> 1, addr |-> 1, request |-> Some(<<"/">>)]
    /\ ret = OkSome
    /\ args \in RespondArgs
    /\ call = NoCall
    /\ calls = <<>>

NextRespond == Responses \/ PeerClose(1)

SpecRespond == InitRespond /\ [][NextRespond]_vars

(***************************************************************************)
(* SpecPair: on one Client, so on one socket, the caller calls respond and *)
(* then respond_chunked with the same status, headers and body.            *)
(***************************************************************************)
NextPair ==
    \/ calls = <<>> /\ CallRespond
    \/ Len(calls) = 1 /\ CallRespondChunked
    \/ CallSteps
    \/ PeerClose(1)

SpecPair == InitRespond /\ [][NextPair]_vars

(***************************************************************************)
(* SpecRequest: the response calls of Request, on a Request built from     *)
(* "GET /" + CRLF + CRLF, for every status, header list and body of        *)
(* RespondArgs and every write limit of the socket.                        *)
(***************************************************************************)
NextRequest ==
    \/ /\ Len(calls) < MaxCalls
       /\ \/ CallRequestRespond
          \/ CallRequestRespondOk
    \/ RequestWriteStatus
    \/ RequestWriteHeader
    \/ RequestReturn
    \/ RequestWriteError
    \/ PeerClose(1)

SpecRequest == InitRespond /\ [][NextRequest]_vars

(***************************************************************************)
(* SpecParse: Client::new's parse over every drained buffer made of at     *)
(* most MaxPieces pieces.                                                  *)
(***************************************************************************)
Pieces == {GET_, <<"/">>, <<"a">>, <<SP>>, CRLF, <<CR>>, <<BadByte>>}
ParseInputs == {Concat(ps) : ps \in SeqsUpTo(Pieces, MaxPieces)}

InitParse ==
    /\ windows = FALSE
    /\ nonblocking = FALSE
    /\ modeSet = FALSE
    /\ backlog = <<>>
    /\ conn = [p \in Peers |-> IF p = 1 THEN "accepted" ELSE "none"]
    /\ peerOpen = [p \in Peers |-> TRUE]
    /\ tosend = [p \in Peers |-> <<>>]
    /\ inflight = [p \in Peers |-> <<>>]
    /\ data \in ParseInputs
    /\ sent = [p \in Peers |-> IF p = 1 THEN <<data>> ELSE <<>>]
    /\ wire = [p \in Peers |-> <<>>]
    /\ streamNb = FALSE
    /\ wcap = 0
    /\ pc = "parse"
    /\ cur = 1
    /\ result = <<>>
    /\ client = NoClient
    /\ ret = NoRet
    /\ args = NoArgs
    /\ call = NoCall
    /\ calls = <<>>

NextParse == ClientNewOk \/ ClientNewPanic

SpecParse == InitParse /\ [][NextParse]_vars


(***************************************************************************)
(* What the claims speak of, said without the operators of the model.      *)
(***************************************************************************)
\* A Client has been built and the caller holds it.
Constructed == client # NoClient

\* Bytes i and i+1 of buf are CR LF.
CRLFAt(buf, i) == i + 1 <= Len(buf) /\ buf[i] = CR /\ buf[i + 1] = LF

\* The places where a CRLF-delimited line of buf starts.
LineStarts(buf) == {1} \cup {i + 2 : i \in {k \in 1..Len(buf) : CRLFAt(buf, k)}}

\* "GET " stands at place i of buf.
GetAt(buf, i) ==
    /\ i + 3 <= Len(buf)
    /\ buf[i] = "G" /\ buf[i + 1] = "E" /\ buf[i + 2] = "T" /\ buf[i + 3] = SP

\* The places where a line of buf starts with "GET ".
GetLines(buf) == {i \in LineStarts(buf) : GetAt(buf, i)}

\* The end (exclusive) of the token of buf that starts at place i: the next
\* space, the next CRLF or the end of buf.
TokenEnd(buf, i) ==
    LET ends == {e \in i..(Len(buf) + 1) :
                    \/ e = Len(buf) + 1
                    \/ buf[e] = SP
                    \/ CRLFAt(buf, e)}
    IN  CHOOSE e \in ends : \A f \in ends : e <= f

\* The second space-delimited token of the GET line that starts at place i.
GetTarget(buf, i) == SubSeq(buf, i + 4, TokenEnd(buf, i + 4) - 1)

NoSpace(t) == \A i \in 1..Len(t) : t[i] # SP
NoCRLF(t) == \A i \in 1..Len(t) : ~CRLFAt(t, i)

\* The targets t with buf = "GET " + t + " " + anything + CRLF + rest or
\* buf = "GET " + t + CRLF + rest, t holding no space and no CRLF.
FormTargets(buf) ==
    IF ~GetAt(buf, 1) THEN {}
    ELSE {SubSeq(buf, 5, e - 1) :
            e \in {f \in 5..Len(buf) :
                     /\ NoSpace(SubSeq(buf, 5, f - 1))
                     /\ NoCRLF(SubSeq(buf, 5, f - 1))
                     /\ \/ CRLFAt(buf, f)
                        \/ /\ buf[f] = SP
                           /\ \E k \in (f + 1)..Len(buf) : CRLFAt(buf, k)}}

\* The response the specification writes for status, body and headers.
ExpectedResponse(status, body, headers) ==
    HTTP_1_0_ \o status \o CRLF
        \o CONTENT_LENGTH_ \o Decimal(Len(body)) \o CRLF
        \o Concat([i \in 1..Len(headers) |-> headers[i] \o CRLF])
        \o CRLF \o body

\* Pattern p stands somewhere in s.
Occurs(p, s) == \E i \in 1..(Len(s) + 1 - Len(p)) : SubSeq(s, i, i + Len(p) - 1) = p

\* The first place of s where the blank line that ends the headers (CRLF
\* CRLF) starts; 0 if there is none.
BlankLine(s) ==
    LET at == {i \in 1..Len(s) : CRLFAt(s, i) /\ CRLFAt(s, i + 2)}
    IN  IF at = {} THEN 0 ELSE CHOOSE i \in at : \A j \in at : i <= j

\* The finished calls of the buffered operations that returned Ok.
BufferedOk == {i \in 1..Len(calls) :
                  calls[i].op \in {"respond", "respond_ok"} /\ calls[i].ret.tag = "Ok"}

(***************************************************************************)
(* The claims.                                                             *)
(***************************************************************************)
\* C1: a respond (or respond_ok) call that returned Ok has put on the wire
\* exactly "HTTP/1.0 " + status + CRLF + "Content-Length: " + len(body) +
\* CRLF + each header followed by CRLF + CRLF + body, and nothing else.
C1_RespondWritesExactResponse ==
    \A i \in BufferedOk :
        calls[i].out = ExpectedResponse(calls[i].status, calls[i].body, calls[i].headers)

\* C2: a respond call that returned Ok has written the header
\* "Content-Length: " + len(body), and exactly len(body) bytes follow the
\* blank line on the wire, however many bytes each write took.
C2_ContentLengthMatchesBody ==
    \A i \in BufferedOk :
        /\ Occurs(CONTENT_LENGTH_ \o Decimal(Len(calls[i].body)) \o CRLF, calls[i].out)
        /\ BlankLine(calls[i].out) # 0
        /\ Len(calls[i].out) - (BlankLine(calls[i].out) + 3) = Len(calls[i].body)

\* C3: once the request line "GET /ab" + CRLF has reached the server in
\* several segments, the Client whose drain-read took bytes of it has the
\* request "/ab": not a prefix of it, and not None.
C3_SegmentedRequestParsedWhole ==
    (/\ Constructed
     /\ Len(sent[client.stream]) >= 2
     /\ Concat(sent[client.stream]) = ReqGet
     /\ data # <<>>)
        => client.request = Some(<<"/", "a", "b">>)

\* C4: while next_client waits in accept on a listener as MicroHTTP::new
\* made it, with no connection pending, the return of Ok(None) is possible:
\* the call does not wait for a peer.
C4_NextClientNeverBlocks ==
    (pc = "accept" /\ backlog = <<>> /\ ~modeSet) => ENABLED AcceptWouldBlock

\* The peer p has connected, has sent nothing and has nothing to send.
Silent(p) == sent[p] = <<>> /\ tosend[p] = <<>>

\* C5: for a peer that connects and sends nothing, the drain-read can return
\* with no data instead of waiting for the peer; the Client built has no
\* request; and respond_ok on it returns Ok while the peer is there.
C5_SilentPeerGetsClient ==
    /\ (pc = "read" /\ Silent(cur) /\ peerOpen[cur]) => ENABLED ReadWouldBlock
    /\ (Constructed /\ Silent(client.stream)) => client.request = None
    /\ (Constructed /\ Silent(client.stream) /\ peerOpen[client.stream]) =>
           \A i \in 1..Len(calls) :
               calls[i].op = "respond_ok" => calls[i].ret.tag = "Ok"

\* Client::new has dealt with the drained bytes `data`.
Parsed == pc # "parse" /\ (Constructed \/ pc = "panicked")

\* C6: when the drained bytes are "GET " + target + " " + anything + CRLF +
\* rest, or "GET " + target + CRLF + rest, the parsed request is
\* Some(target), whatever anything and rest hold.
C6_TargetOfGetLine ==
    Parsed => \A t \in FormTargets(data) : client.request = Some(t)

\* C7: a Client built from drained bytes none of whose CRLF-delimited lines
\* begins with "GET " has the request None.
C7_NoGetLineIsNone ==
    (Constructed /\ GetLines(data) = {}) => client.request = None

\* C7's case: a Client built from bytes that hold "GET " but not at the
\* start of a line.
C7_Witness ==
    /\ Constructed
    /\ GetLines(data) = {}
    /\ Occurs(GET_, data)
    /\ client.request = None

\* C8: a Client built from drained bytes with several lines that begin with
\* "GET " has as its request the second space-delimited token of the first
\* of them in buffer order.
C8_FirstGetLineDecides ==
    (Constructed /\ Cardinality(GetLines(data)) >= 2) =>
        LET first == CHOOSE i \in GetLines(data) : \A j \in GetLines(data) : i <= j
        IN  client.request = Some(GetTarget(data, first))

\* C8's case: two GET lines with different targets, the first one's taken.
C8_Witness ==
    /\ Constructed
    /\ \E i, j \in GetLines(data) :
          /\ i < j
          /\ GetTarget(data, i) # GetTarget(data, j)
          /\ client.request = Some(GetTarget(data, i))

\* The bytes are the encoding of some text.
ValidUtf8(buf) == \A i \in 1..Len(buf) : buf[i] # BadByte

\* C9: drained bytes that are not valid UTF-8 do not end the process: a
\* Client with the request None is built, or an error is returned.
C9_InvalidUtf8IsNoRequest ==
    (pc # "parse" /\ ~ValidUtf8(data)) =>
        /\ pc # "panicked"
        /\ \/ Constructed /\ client.request = None
           \/ ret.tag = "Err"

\* C10: on one socket, a respond call and a respond_chunked call with the
\* same status, headers and body, the declared length being the body's,
\* that both returned Ok have put the same bytes on the wire and returned
\* the same count.
C10_StreamedEqualsBuffered ==
    \A i, j \in 1..Len(calls) :
        (/\ calls[i].op = "respond"
         /\ calls[j].op = "respond_chunked"
         /\ calls[j].size = Len(calls[j].body)
         /\ calls[i].ret.tag = "Ok"
         /\ calls[j].ret.tag = "Ok")
            => calls[i].out = calls[j].out /\ calls[i].ret = calls[j].ret

\* The positions of the server thread just before a stream.write of a
\* response call.
WritePositions == {"w_status", "w_header", "w_blank", "w_body"}

\* The last entry of the history of finished calls.
LastCall(h) == h[Len(h)]

\* C11: the step in which a socket write of a response call fails ends the
\* call with that error: the call is over (no later write belongs to it),
\* the wire keeps exactly the bytes the earlier writes put there, and those
\* are what the call is recorded to have written.  The wire only grows, and
\* only by a write of a call in progress.
C11_WriteErrorEndsCall ==
    [][/\ (pc \in WritePositions /\ ret'.tag = "Err") =>
            /\ pc' = "idle"
            /\ call' = NoCall
            /\ wire' = wire
            /\ Len(calls') = Len(calls) + 1
            /\ LastCall(calls').ret = ret'
            /\ LastCall(calls').out =
                   SubSeq(wire[client.stream], call.start + 1, Len(wire[client.stream]))
       /\ pc \notin WritePositions => wire' = wire
       /\ \A p \in Peers :
              /\ Len(wire'[p]) >= Len(wire[p])
              /\ SubSeq(wire'[p], 1, Len(wire[p])) = wire[p]]_vars

\* A write failed after earlier writes of the same call had put bytes on the
\* wire, with headers or body still to come.
C11_Witness ==
    \E i \in 1..Len(calls) :
        /\ calls[i].ret = Err("BrokenPipe")
        /\ calls[i].out # <<>>
        /\ BlankLine(calls[i].out) = 0
        /\ wire[client.stream] = calls[i].out

\* C12: a response call that returned Ok(n) has n equal to the number of
\* bytes the socket took during the call; when the whole response reached
\* the wire, n is the length of the whole response.
C12_OkCountsAcceptedBytes ==
    \A i \in 1..Len(calls) :
        calls[i].ret.tag = "Ok" =>
            /\ calls[i].ret.n = Len(calls[i].out)
            /\ calls[i].out = ExpectedResponse(calls[i].status, calls[i].body, calls[i].headers)
                   => calls[i].ret.n =
                          Len(HTTP_1_0_) + Len(calls[i].status) + 2
                          + Len(CONTENT_LENGTH_) + Len(Decimal(Len(calls[i].body))) + 2
                          + Len(Concat(calls[i].headers)) + 2 * Len(calls[i].headers)
                          + 2 + Len(calls[i].body)

\* A call with headers and a body returned Ok(n) on a socket that took fewer
\* bytes than it was given: n is less than the length of the whole response.
C12_Witness ==
    \E i \in 1..Len(calls) :
        /\ calls[i].ret.tag = "Ok"
        /\ calls[i].ret.n > 0
        /\ calls[i].headers # <<>>
        /\ calls[i].body # <<>>
        /\ wcap > 0
        /\ calls[i].ret.n < Len(ExpectedResponse(calls[i].status, calls[i].body, calls[i].headers))

\* C13: one accept attempt of next_client ends in one of these ways.  With no
\* connection pending on a non-blocking listener it returns Ok(None); on
\* another accept error it returns Err; with a peer waiting it builds a
\* Client, and then either the drain-read fails and the read error is
\* returned, or Ok(Some(client)) is returned with client.addr() the address
\* of the accepted peer.
C13_NextClientClassifies ==
    [][/\ (pc = "accept" /\ pc' # "accept") =>
            \/ /\ backlog = <<>> /\ nonblocking
               /\ ret' = OkNone /\ pc' = "idle" /\ client' = NoClient
            \/ ret'.tag = "Err" /\ pc' = "idle" /\ client' = NoClient
            \/ backlog # <<>> /\ pc' = "read" /\ cur' = Head(backlog)
       /\ (pc = "read" /\ pc' # "read") =>
            \/ pc' = "parse" /\ cur' = cur
            \/ ret'.tag = "Err" /\ pc' = "idle" /\ client' = NoClient
       /\ (pc = "parse" /\ pc' # "parse") =>
            /\ pc' = "idle"
            /\ ret' = OkSome
            /\ client' # NoClient
            /\ client'.addr = cur]_vars

\* No bytes are waiting on the stream being drained and its peer is there:
\* a read ends with an error or waits.
NothingToRead == pc = "read" /\ inflight[cur] = <<>> /\ peerOpen[cur]

\* C14: a read that fails with WouldBlock, which a non-blocking stream with
\* nothing to read gives, ends the drain-read with the bytes accumulated so
\* far; so does TimedOut where os_windows() is true, and nowhere else: on a
\* blocking stream off Windows no failed read ends it successfully.  A hard
\* error fails the construction: next_client returns the error, no Client is
\* built, the accumulated bytes are gone and the connection is closed for
\* good, never to be accepted again.
C14_ReadErrorPolicy ==
    [][/\ (NothingToRead /\ streamNb) => ENABLED ReadWouldBlock
       /\ (NothingToRead /\ pc' = "parse") =>
            /\ data' = result
            /\ streamNb \/ windows
       /\ (pc = "read" /\ ret'.tag = "Err") =>
            /\ ret'.kind = "TimedOut" => ~windows
            /\ pc' = "idle"
            /\ client' = NoClient
            /\ result' = <<>> /\ data' = <<>>
            /\ conn'[cur] = "dropped"
            /\ \A i \in 1..Len(backlog') : backlog'[i] # cur
       /\ \A p \in Peers : conn[p] = "dropped" =>
            /\ conn'[p] = "dropped"
            /\ cur' # p
            /\ client'.stream # p]_vars

\* A timed-out read off Windows failed a construction that had accumulated
\* nothing it could return; the connection is dropped.
C14_Witness ==
    /\ ret = Err("TimedOut")
    /\ ~windows
    /\ pc = "idle"
    /\ client = NoClient
    /\ \E p \in Peers : conn[p] = "dropped"

\* C15: a read of the drain-read takes the first val bytes the socket holds,
\* val at most BUF_SIZE (4096 in the source), and appends them to the result.
\* After a read of exactly BUF_SIZE bytes the loop reads again; a read of
\* fewer bytes, or of none, ends it, and what it returns is the result so
\* far.  At every moment the bytes accumulated, followed by the bytes the
\* socket still holds, are the bytes the peer sent, in the order sent.
C15_DrainReadConcatenates ==
    [][/\ (pc = "read" /\ (pc' # "read" \/ result' # result) /\ ret'.tag # "Err") =>
            LET val == Len(inflight[cur]) - Len(inflight'[cur])
                got == SubSeq(inflight[cur], 1, val)
            IN  /\ val <= BUF_SIZE
                /\ inflight'[cur] = SubSeq(inflight[cur], val + 1, Len(inflight[cur]))
                /\ val = BUF_SIZE => pc' = "read" /\ result' = result \o got
                /\ val < BUF_SIZE => pc' = "parse" /\ data' = result \o got
       /\ pc = "read" => result \o inflight[cur] = Concat(sent[cur])
       /\ pc = "parse" => data \o inflight[cur] = Concat(sent[cur])]_vars

\* A Client was built from more than BUF_SIZE bytes, so from more than one
\* read, and they are the bytes its peer sent.
C15_Witness ==
    /\ Constructed
    /\ Len(data) > BUF_SIZE
    /\ data = Concat(sent[client.stream])

\* s is t, or t with bytes added at its end.
Extends(s, t) == Len(s) >= Len(t) /\ SubSeq(s, 1, Len(t)) = t

\* C16: while the caller holds a Client, no step changes the Client: not a
\* step of respond, respond_ok, respond_chunked or respond_ok_chunked, ending
\* in Ok or in Err, and not addr or request.  None takes bytes from the
\* socket: what the socket holds unread only grows, by what the peer sends.
\* request() and addr() return the fields as they are since construction.
C16_ClientUnchangedAfterConstruction ==
    [][/\ (Constructed /\ client' # NoClient) =>
            /\ client' = client
            /\ data' = data
            /\ Extends(inflight'[client.stream], inflight[client.stream])
       /\ (Constructed /\ ret.tag = "Request") => ret.val = client.request
       /\ (Constructed /\ ret.tag = "Addr") => ret.n = client.addr]_vars

\* A Client built from the first segment of a request has answered a
\* response call while the rest of the request lay unread on its socket, and
\* request() after that call has returned the request of the construction.
C16_Witness ==
    /\ Constructed
    /\ inflight[client.stream] # <<>>
    /\ Len(calls) >= 1
    /\ wire[client.stream] # <<>>
    /\ ret.tag = "Request"
    /\ ret.val = extract_request_url(data)

\* The finished calls of the streamed operations that returned Ok.
ChunkedOk == {i \in 1..Len(calls) :
                 /\ calls[i].op \in {"respond_chunked", "respond_ok_chunked"}
                 /\ calls[i].ret.tag = "Ok"}

\* The response with the Content-Length header declaring size and the body
\* the bytes the source yielded.
DeclaredResponse(status, size, headers, yielded) ==
    HTTP_1_0_ \o status \o CRLF
        \o CONTENT_LENGTH_ \o Decimal(size) \o CRLF
        \o Concat([i \in 1..Len(headers) |-> headers[i] \o CRLF])
        \o CRLF \o yielded

\* C17: a respond_chunked (or respond_ok_chunked) call that returned Ok has
\* written the Content-Length header with the content_size its caller
\* declared and, after the blank line, exactly the bytes its source yielded,
\* whether they are as many as declared, fewer or more; each chunk it copies
\* is of 1 to CHUNK_SIZE bytes (4096 in the source).
C17_DeclaredSizeTrusted ==
    /\ pc = "w_body" => Len(call.buffer) \in 1..CHUNK_SIZE
    /\ \A i \in ChunkedOk :
           calls[i].out = DeclaredResponse(calls[i].status, calls[i].size,
                                           calls[i].headers, calls[i].body)

\* The finished calls of Request's operations that returned Ok.
RequestOk == {i \in 1..Len(calls) :
                 /\ calls[i].op \in {"Request::respond", "Request::respond_ok"}
                 /\ calls[i].ret.tag = "Ok"}

\* C18: a Request::respond (or respond_ok) call that returned Ok has put on
\* the wire the status line, the Content-Length header with the length of
\* the data, each header followed by CRLF, the blank line and then the data,
\* and has returned the number of bytes of all that.
C18_RequestRespondSameFraming ==
    \A i \in RequestOk :
        /\ calls[i].out = ExpectedResponse(calls[i].status, calls[i].body, calls[i].headers)
        /\ calls[i].ret.n = Len(ExpectedResponse(calls[i].status, calls[i].body, calls[i].headers))

\* The first place where a line of buf starts with "GET ".
FirstGetLine(buf) ==
    CHOOSE i \in GetLines(buf) : \A j \in GetLines(buf) : i <= j

\* C19: every line of the drained bytes that starts with "GET " splits on
\* single spaces into at least two components, so no such line is skipped:
\* the first of them gives the request of the Client built, and when nothing
\* or a space follows its "GET ", the request is Some(""), whatever GET
\* lines come later.
C19_GetLineNeverSkipped ==
    /\ \A k \in 1..Len(split(data, CRLF)) :
           starts_with(split(data, CRLF)[k], GET_) =>
               Len(split(split(data, CRLF)[k], <<SP>>)) >= 2
    /\ (Constructed /\ GetLines(data) # {}) =>
           /\ client.request = Some(GetTarget(data, FirstGetLine(data)))
           /\ TokenEnd(data, FirstGetLine(data) + 4) = FirstGetLine(data) + 4
                  => client.request = Some(<<>>)

\* The first GET line of the drained bytes is "GET " alone, a later one has
\* a target, and the request of the Client built is the empty target.
C19_Witness ==
    /\ Constructed
    /\ \E j \in GetLines(data) :
          /\ FirstGetLine(data) < j
          /\ GetTarget(data, j) # <<>>
    /\ CRLFAt(data, FirstGetLine(data) + 4)
    /\ client.request = Some(<<>>)

\* C20: a respond_chunked call that returned the error of a read of its
\* source has left on the wire the whole header block (status line,
\* Content-Length, headers, blank line) followed by the chunks copied before
\* the failure, which are a prefix of what the source holds, and nothing
\* after them.
C20_SourceErrorAfterHeaders ==
    \A i \in 1..Len(calls) :
        calls[i].ret = Err("SourceRead") =>
            /\ \E k \in 0..Len(calls[i].body) :
                   calls[i].out =
                       DeclaredResponse(calls[i].status, calls[i].size,
                                        calls[i].headers, SubSeq(calls[i].body, 1, k))
            /\ i = Len(calls) /\ call = NoCall =>
                   Extends(calls[i].out, SubSeq(wire[client.stream],
                               Len(wire[client.stream]) + 1 - Len(calls[i].out),
                               Len(wire[client.stream])))

====
